---- MODULE Spec2Model ----
(***************************************************************************)
(* Model of gopacket's packet engine (src/packet.go): the eager and the    *)
(* lazy packet, the PacketBuilder methods decoders call back into, decode  *)
(* failure recovery, NewPacket and the PacketSource.                       *)
(*                                                                         *)
(* Decoders are external collaborators.  They are modelled as scripts, a   *)
(* sequence of builder calls ending in a return or a panic; the table      *)
(* Decoders holds well-behaved protocol decoders and misbehaving ones.     *)
(***************************************************************************)
EXTENDS Integers, Sequences, FiniteSets, TLC

VARIABLES
    mem,      \* byte buffers: "in" (the caller's slice), "eager"/"lazy" (a packet's own copy)
    first,    \* the firstLayerDecoder handed to NewPacket (PacketSource.decoder)
    pk,       \* the packets built so far, by engine: "eager" and/or "lazy"
    call,     \* the engine call in progress (NewPacket or an accessor), NoCall when none
    stack,    \* the Decode calls in progress, innermost last
    fault,    \* a panic in flight, NoFault when none
    ret,      \* what the last finished accessor or NewPacket call returned
    psrc,     \* the PacketSource: its data source's reads, how many were made, its DecodeOptions
    np,       \* the NextPacket call in progress, NoNP when none
    task,     \* the goroutine Packets() started and its channel
    cons,     \* the user of the PacketSource: how it reads and whether it still does
    out,      \* what the user got so far: NextPacket results, or packets received
    thr       \* a second goroutine using the lazy packet: its parked registers
              \* and the locals of both goroutines; whether calls overlapped

vars == <<mem, first, pk, call, stack, fault, ret, psrc, np, task, cons, out, thr>>
\* The PacketSource and its user, and the second goroutine.
svars == <<psrc, np, task, cons, out, thr>>

----------------------------------------------------------------------------
\* Bounds of the model.

\* Longest input buffer.
MaxLen == 3
\* Deepest nesting of Decode calls the runtime's stack holds before the
\* process dies of stack exhaustion.
MaxDepth == 4
\* Most reads a data source answers before it reports end-of-stream.
MaxReads == 3

----------------------------------------------------------------------------
\* Values.

NilDecoder == "nil"
NoErr == ""
\* eagerPacket/lazyPacket NextDecoder errors (packet.go:147, packet.go:154).
nilDecoderError == "NextDecoder passed nil decoder, probably an unsupported decode type"
noLayersError == "NextDecoder called, but no layers added yet"
\* Errors of the sample decoders.
shortBuffer == "short buffer"
\* The text of the runtime error a call on a nil interface panics with.
nilDereference == "runtime error: invalid memory address or nil pointer dereference"

Min(a, b) == IF a <= b THEN a ELSE b
Max(a, b) == IF a >= b THEN a ELSE b

\* A []byte is a view of a buffer: `len` bytes of mem[buf] after the first `lo`.
Slice(b, lo, n) == [buf |-> b, lo |-> lo, len |-> n]
NilSlice == Slice("none", 0, 0)
Bytes(m, s) == IF s.len = 0 THEN <<>> ELSE SubSeq(m[s.buf], s.lo + 1, s.lo + s.len)

DecodeFailureType == "DecodeFailure"
NilLayer == [id |-> 0, type |-> "nil", contents |-> NilSlice, payload |-> NilSlice, err |-> NoErr]
LayerPayload(l) == l.payload
LayerType(l) == l.type

NoFault == [kind |-> "none", msg |-> ""]
NoCall == [fn |-> "none", on |-> "none", arg |-> {}, numLayers |-> 0]
NoRet == [fn |-> "none", on |-> "none", arg |-> {}, layer |-> NilLayer, layers |-> <<>>,
          text |-> <<>>, err |-> NoErr]

\* A slice header (array, len, cap); array 0 is the nil slice.
NilHdr == [arr |-> 0, len |-> 0, cap |-> 0]

\* A store of a goroutine to a field f of a packet two goroutines use
\* (element i of array arr when f is "slot"): a decoder, a layer or a slice
\* header.
NoStore == [f |-> "", arr |-> 0, i |-> 0, dec |-> NilDecoder, l |-> NilLayer, h |-> NilHdr]

\* The locals of a goroutine inside an accessor of a lazy packet: where it
\* is (pc, "" outside the statements that touch the packet's fields), the
\* next and d of decodeNextLayer, in AddLayer the layer l, the slice header
\* hdr that append works on and the stores still to do (todo), and the
\* stores it has done that have not reached memory (sb); and whether it
\* has made its call (called).
\* NoLocals: a goroutine that is not there.
NoLocals == [pc |-> "", next |-> NilDecoder, d |-> NilSlice,
             hdr |-> NilHdr, l |-> NilLayer, todo |-> <<>>, sb |-> <<>>,
             called |-> FALSE]
\* The goroutine that is not running (park) and whether calls have
\* overlapped.
NoThread == [run |-> NoLocals,
             park |-> [call |-> NoCall, stack |-> <<>>, fault |-> NoFault, loc |-> NoLocals],
             overlapped |-> FALSE]

RoleFields == {"link", "network", "transport", "application", "failure"}

----------------------------------------------------------------------------
\* The sample decoders.  A script is a sequence of steps:
\*   add   create a layer of `type` from the first `eat` bytes of the buffer
\*         (`all`: from every byte) and AddLayer it; with fewer bytes than
\*         `eat` the decoder returns the error "short buffer" instead
\*   set   Set<Role>Layer(the layer this call created last)
\*   next  err := NextDecoder(next); if err != nil { return err }
\*   err   return errors.New(msg)
\*   panic panic(msg)
\* and falling off the end is `return nil`.

NoOp == [op |-> "", type |-> "", eat |-> 0, all |-> FALSE, role |-> "", next |-> "", msg |-> ""]
OpAdd(t, n) == [NoOp EXCEPT !.op = "add", !.type = t, !.eat = n]
OpAddAll(t) == [NoOp EXCEPT !.op = "add", !.type = t, !.all = TRUE]
OpSet(r) == [NoOp EXCEPT !.op = "set", !.role = r]
OpNext(d) == [NoOp EXCEPT !.op = "next", !.next = d]
OpErr(m) == [NoOp EXCEPT !.op = "err", !.msg = m]
OpPanic(m) == [NoOp EXCEPT !.op = "panic", !.msg = m]

Decoders ==
    [ Eth   |-> <<OpAdd("Ethernet", 1), OpSet("link"), OpNext("IP")>>,
      IP    |-> <<OpAdd("IPv4", 1), OpSet("network"), OpNext("TCP")>>,
      UDP   |-> <<OpAdd("UDP", 1), OpSet("transport"), OpNext("TCP")>>,
      TCP   |-> <<OpAdd("TCP", 1), OpSet("transport"), OpNext("Pay")>>,
      Pay   |-> <<OpAddAll("Payload"), OpSet("application")>>,
      Icmp  |-> <<OpAdd("ICMP", 1), OpSet("failure"), OpSet("network")>>,
      Unk   |-> <<OpAdd("Unknown", 1), OpNext(NilDecoder)>>,
      Vlan  |-> <<OpAdd("Dot1Q", 1), OpNext("Crash")>>,
      Crash |-> <<OpPanic("index out of range")>>,
      Bad   |-> <<OpAdd("Bad", 1), OpNext("Pay"), OpErr("bad length")>>,
      Pass  |-> <<OpNext("Eth")>>,
      Pre   |-> <<OpAdd("Pre", 1), OpNext("Loop")>>,
      Loop  |-> <<OpNext("Loop")>> ]

DecIds == DOMAIN Decoders
LayerTypes == {"Ethernet", "IPv4", "UDP", "TCP", "Payload", "ICMP", "Unknown",
               "Dot1Q", "Bad", "Pre", DecodeFailureType}

----------------------------------------------------------------------------
\* packet (packet.go:63-82) and its builder methods.

\* A slice of layers is a header (array, len, cap) over one of the packet's
\* arrays: array 1 is the packet's own initialLayers, the others are those
\* append allocates, and array 0 is the nil slice.
initialLayers == <<NilLayer, NilLayer, NilLayer, NilLayer, NilLayer, NilLayer>>
\* The layers a slice header shows.
View(arrays, h) == IF h.arr = 0 THEN <<>> ELSE SubSeq(arrays[h.arr], 1, h.len)
\* The capacity append gives the array it allocates once cap is used up.
GrowCap(cap) == IF cap = 0 THEN 1 ELSE 2 * cap

\* The struct literal packet{data: data}.  `layers` is what p.layers shows,
\* hdr its header.
packet(kind, data) ==
    [ kind |-> kind, data |-> data, layers |-> <<>>, last |-> NilLayer,
      hdr |-> NilHdr, arrays |-> <<initialLayers, <<>>, <<>>, <<>>>>,
      capInfo |-> [Populated |-> FALSE, Length |-> 0],
      link |-> NilLayer, network |-> NilLayer, transport |-> NilLayer,
      application |-> NilLayer, failure |-> NilLayer,
      next |-> NilDecoder,
      \* not a field of the struct: the Decode calls made on the packet so far
      invoked |-> 0 ]

\* One more Decode call on packet p.  The count stops at MaxInvoked, which
\* is past every count the properties speak of.
MaxInvoked == MaxLen + 2
Decode(p) == [p EXCEPT !.invoked = Min(@ + 1, MaxInvoked)]

SetLinkLayer(p, l) == IF p.link = NilLayer THEN [p EXCEPT !.link = l] ELSE p
SetNetworkLayer(p, l) == IF p.network = NilLayer THEN [p EXCEPT !.network = l] ELSE p
\* Mutant: a later claim of the transport role replaces the earlier one.
SetTransportLayerOverwrites(p, l) == [p EXCEPT !.transport = l]
SetTransportLayer(p, l) == IF p.transport = NilLayer THEN [p EXCEPT !.transport = l] ELSE p
SetApplicationLayer(p, l) == IF p.application = NilLayer THEN [p EXCEPT !.application = l] ELSE p
SetErrorLayer(p, l) == IF p.failure = NilLayer THEN [p EXCEPT !.failure = l] ELSE p

SetRoleLayer(p, r, l) ==
    CASE r = "link" -> SetLinkLayer(p, l)
      [] r = "network" -> SetNetworkLayer(p, l)
      [] r = "transport" -> SetTransportLayer(p, l)
      [] r = "application" -> SetApplicationLayer(p, l)
      [] r = "failure" -> SetErrorLayer(p, l)

\* Mutant: the new layer replaces the layers decoded so far.
AddLayerOverwrites(p, l) == [p EXCEPT !.layers = <<l>>, !.last = l]
\* How append(p.layers, l) leaves the arrays and the header: with room in
\* the array the layer is written in place, else a larger array is
\* allocated, the elements copied and the layer written after them; an
\* allocated array nothing refers to any more is freed.
append(p, l) ==
    LET h == p.hdr
        free == CHOOSE i \in DOMAIN p.arrays : i > 1 /\ i # h.arr
        grown == [i \in 1..GrowCap(h.cap) |->
                     IF i <= h.len THEN p.arrays[h.arr][i]
                     ELSE IF i = h.len + 1 THEN l ELSE NilLayer]
    IN IF h.len < h.cap
       THEN [p EXCEPT !.arrays[h.arr][h.len + 1] = l, !.hdr.len = h.len + 1]
       ELSE [p EXCEPT !.arrays = [i \in DOMAIN p.arrays |->
                                     IF i = free THEN grown
                                     ELSE IF i = 1 THEN p.arrays[1] ELSE <<>>],
                      !.hdr = [arr |-> free, len |-> h.len + 1, cap |-> GrowCap(h.cap)]]
AddLayer(p, l) ==
    LET q == append(p, l)
    IN [q EXCEPT !.layers = View(q.arrays, q.hdr), !.last = l]

\* `p.layers = p.initialLayers[:0]` (packet.go:361, 377).
initialSlice(p) == [p EXCEPT !.hdr = [arr |-> 1, len |-> 0, cap |-> Len(p.arrays[1])]]

\* fmt.Errorf("%v", r): the message of the recovered value, an error or any
\* other value a decoder panicked with.
Errorf(r) == r.msg

\* DecodeFailure.LayerPayload: a failure layer has nothing left to decode.
DecodeFailurePayload == NilSlice

\* Mutant: the failure layer always takes the whole packet buffer.
recoverDecodeErrorWholeBuffer(p, r) ==
    IF r # NoFault
    THEN [p EXCEPT !.layers = Append(@, [ id |-> Len(p.layers) + 1,
                                          type |-> DecodeFailureType,
                                          err |-> r.msg,
                                          contents |-> p.data,
                                          payload |-> NilSlice ]),
                   !.last = [ id |-> Len(p.layers) + 1,
                              type |-> DecodeFailureType,
                              err |-> r.msg,
                              contents |-> p.data,
                              payload |-> NilSlice ]]
    ELSE p

\* recoverDecodeError (packet.go:119-129), r the recovered value.
recoverDecodeError(p, r) ==
    IF r # NoFault
    THEN AddLayer(p, [ id |-> Len(p.layers) + 1,
                       type |-> DecodeFailureType,
                       err |-> Errorf(r),
                       contents |-> IF p.last = NilLayer THEN p.data
                                    ELSE LayerPayload(p.last),
                       payload |-> DecodeFailurePayload ])
    ELSE p

----------------------------------------------------------------------------
\* The Decode calls in progress.

Frame(d, buf) == [dec |-> d, pc |-> 1, buf |-> buf, cur |-> NilLayer, err |-> NoErr]
Top == stack[Len(stack)]
Script == Decoders[Top.dec]
AtEnd == Top.pc > Len(Script)
CurOp == Script[Top.pc]
Eaten(op, buf) == IF op.all THEN buf.len ELSE op.eat
Short == CurOp.op = "add" /\ Top.buf.len < Eaten(CurOp, Top.buf)
\* The innermost decoder is at a return statement.
Returning ==
    IF Top.err # NoErr THEN TRUE
    ELSE IF AtEnd THEN TRUE
    ELSE CurOp.op = "err" \/ Short
\* The value it returns.
Result ==
    IF Top.err # NoErr THEN Top.err
    ELSE IF AtEnd THEN NoErr
    ELSE IF CurOp.op = "err" THEN CurOp.msg ELSE shortBuffer
\* The innermost decoder is about to run its next statement.
Running ==
    /\ call # NoCall
    /\ stack # <<>>
    /\ fault = NoFault
    /\ Top.err = NoErr
    /\ ~AtEnd
SetTop(f) == [stack EXCEPT ![Len(stack)] = f]
Advance == [Top EXCEPT !.pc = @ + 1]
P == pk[call.on]

\* A decoder builds its layer and calls p.AddLayer.
DecoderAddLayer ==
    /\ Running /\ CurOp.op = "add" /\ ~Short
    /\ LET k == Eaten(CurOp, Top.buf)
           l == [ id |-> Len(P.layers) + 1,
                  type |-> CurOp.type,
                  err |-> NoErr,
                  contents |-> Slice(Top.buf.buf, Top.buf.lo, k),
                  payload |-> Slice(Top.buf.buf, Top.buf.lo + k, Top.buf.len - k) ]
       IN /\ pk' = [pk EXCEPT ![call.on] = AddLayer(@, l)]
          /\ stack' = SetTop([Advance EXCEPT !.cur = l])
    /\ UNCHANGED <<mem, first, call, fault, ret, svars>>

\* A decoder calls p.Set<Role>Layer with the layer it created.
DecoderSetLayer ==
    /\ Running /\ CurOp.op = "set"
    /\ pk' = [pk EXCEPT ![call.on] = SetRoleLayer(@, CurOp.role, Top.cur)]
    /\ stack' = SetTop(Advance)
    /\ UNCHANGED <<mem, first, call, fault, ret, svars>>

\* Mutant: the next decoder is handed the bytes of the first layer's payload.
eagerNextDecoderHandsFirstPayload ==
    /\ Running /\ CurOp.op = "next" /\ call.on = "eager"
    /\ LET next == CurOp.next
           d == IF P.last = NilLayer THEN NilSlice ELSE LayerPayload(P.layers[1])
       IN IF next = NilDecoder
          THEN /\ stack' = SetTop([Top EXCEPT !.err = nilDecoderError])
               /\ fault' = fault /\ pk' = pk
          ELSE IF P.last = NilLayer
          THEN /\ stack' = SetTop([Top EXCEPT !.err = noLayersError])
               /\ fault' = fault /\ pk' = pk
          ELSE IF d.len = 0
          THEN stack' = SetTop(Advance) /\ fault' = fault /\ pk' = pk
          ELSE IF Len(stack) < MaxDepth
          THEN /\ stack' = Append(stack, Frame(next, d))
               /\ fault' = fault
               /\ pk' = [pk EXCEPT ![call.on] = Decode(@)]
          ELSE /\ stack' = stack /\ pk' = pk
               /\ fault' = [kind |-> "fatal", msg |-> "stack overflow"]
    /\ UNCHANGED <<mem, first, call, ret, svars>>

\* eagerPacket.NextDecoder (packet.go:149-162) up to the call of next.Decode.
\* eagerPacket.NextDecoder without its `len(d) == 0` return.
eagerNextDecoderNoEmptyCheck ==
    /\ Running /\ CurOp.op = "next" /\ call.on = "eager"
    /\ LET next == CurOp.next
           d == LayerPayload(P.last)
       IN IF next = NilDecoder
          THEN /\ stack' = SetTop([Top EXCEPT !.err = nilDecoderError])
               /\ fault' = fault /\ pk' = pk
          ELSE IF P.last = NilLayer
          THEN /\ stack' = SetTop([Top EXCEPT !.err = noLayersError])
               /\ fault' = fault /\ pk' = pk
          ELSE IF Len(stack) < MaxDepth
          THEN /\ stack' = Append(stack, Frame(next, d))
               /\ fault' = fault
               /\ pk' = [pk EXCEPT ![call.on] = Decode(@)]
          ELSE /\ stack' = stack /\ pk' = pk
               /\ fault' = [kind |-> "fatal", msg |-> "stack overflow"]
    /\ UNCHANGED <<mem, first, call, ret, svars>>

eagerNextDecoder ==
    /\ Running /\ CurOp.op = "next" /\ call.on = "eager"
    /\ LET next == CurOp.next
           d == LayerPayload(P.last)
       IN IF next = NilDecoder
          THEN /\ stack' = SetTop([Top EXCEPT !.err = nilDecoderError])
               /\ fault' = fault /\ pk' = pk
          ELSE IF P.last = NilLayer
          THEN /\ stack' = SetTop([Top EXCEPT !.err = noLayersError])
               /\ fault' = fault /\ pk' = pk
          ELSE IF d.len = 0
          THEN stack' = SetTop(Advance) /\ fault' = fault /\ pk' = pk
          ELSE IF Len(stack) < MaxDepth
          THEN /\ stack' = Append(stack, Frame(next, d))
               /\ fault' = fault
               /\ pk' = [pk EXCEPT ![call.on] = Decode(@)]
          ELSE /\ stack' = stack /\ pk' = pk
               /\ fault' = [kind |-> "fatal", msg |-> "stack overflow"]
    /\ UNCHANGED <<mem, first, call, ret, svars>>

\* eagerPacket.NextDecoder line 161: next.Decode returned, and NextDecoder
\* returns its result to the decoder that called it.
eagerNextDecoderReturn ==
    /\ call # NoCall /\ fault = NoFault /\ Len(stack) > 1
    /\ Returning
    /\ LET res == Result
           caller == stack[Len(stack) - 1]
           rest == SubSeq(stack, 1, Len(stack) - 2)
       IN stack' = Append(rest, IF res = NoErr THEN [caller EXCEPT !.pc = @ + 1]
                                ELSE [caller EXCEPT !.err = res])
    /\ UNCHANGED <<mem, first, pk, call, fault, ret, svars>>

\* lazyPacket.NextDecoder (packet.go:215-221).
lazyNextDecoder ==
    /\ Running /\ CurOp.op = "next" /\ call.on = "lazy"
    /\ LET next == CurOp.next
       IN IF next = NilDecoder
          THEN stack' = SetTop([Top EXCEPT !.err = nilDecoderError]) /\ pk' = pk
          ELSE /\ pk' = [pk EXCEPT ![call.on].next = next]
               /\ stack' = SetTop(Advance)
    /\ UNCHANGED <<mem, first, call, fault, ret, svars>>

\* A decoder panics: the stack unwinds to the deferred recoverDecodeError.
DecoderPanic ==
    /\ Running /\ CurOp.op = "panic"
    /\ fault' = [kind |-> "value", msg |-> CurOp.msg]
    /\ stack' = <<>>
    /\ UNCHANGED <<mem, first, pk, call, ret, svars>>

\* The outermost Decode call returns.
RootReturns ==
    /\ call # NoCall /\ fault = NoFault /\ Len(stack) = 1
    /\ Returning

\* packetString (packet.go:130-138): for each layer in turn a header line
\* with its number, counted from 1, and its type, then the layer's own
\* String().
packetString(pLayers) ==
    [i \in 1..Len(pLayers) |->
        [n |-> i, type |-> LayerType(pLayers[i]), string |-> pLayers[i]]]

\* The accessors that return every layer: Layers as a slice, String as text.
WantsAll(fn) == fn \in {"Layers", "String"}

\* What an accessor call c hands back once layer l is its answer and ls are
\* the packet's layers.
RetOf(c, l, ls) ==
    [ fn |-> c.fn, on |-> c.on, arg |-> c.arg, layer |-> l,
      layers |-> IF c.fn = "Layers" THEN ls ELSE <<>>,
      text |-> IF c.fn = "String" THEN packetString(ls) ELSE <<>>,
      err |-> NoErr ]

\* eagerPacket.initialDecode (packet.go:163-169) after dec.Decode returned:
\* an error is panicked, otherwise NewPacket returns the packet.
initialDecode ==
    /\ RootReturns /\ call.on = "eager"
    /\ stack' = <<>>
    /\ IF Result # NoErr
       THEN /\ fault' = [kind |-> "error", msg |-> Result]
            /\ UNCHANGED <<call, ret>>
       ELSE /\ fault' = fault
            /\ call' = NoCall
            /\ ret' = RetOf(call, NilLayer, <<>>)
    /\ UNCHANGED <<mem, first, pk, svars>>

\* lazyPacket.decodeNextLayer (packet.go:237-242) after next.Decode returned.
decodeNextLayerReturn ==
    /\ RootReturns /\ call.on = "lazy"
    /\ stack' = <<>>
    /\ fault' = IF Result # NoErr THEN [kind |-> "error", msg |-> Result] ELSE fault
    /\ UNCHANGED <<mem, first, pk, call, ret, svars>>

\* The deferred recoverDecodeError of initialDecode / decodeNextLayer catches
\* the panic; then NewPacket returns (eager) or the accessor loops (lazy).
RecoverDecodeError ==
    /\ call # NoCall /\ fault # NoFault /\ fault.kind # "fatal"
    /\ pk' = [pk EXCEPT ![call.on] = recoverDecodeError(@, fault)]
    /\ fault' = NoFault
    /\ IF call.on = "eager"
       THEN call' = NoCall /\ ret' = RetOf(call, NilLayer, <<>>)
       ELSE UNCHANGED <<call, ret>>
    /\ UNCHANGED <<mem, first, stack, svars>>

----------------------------------------------------------------------------
\* NewPacket (packet.go:350-380).  `data` are the bytes of the caller's
\* slice, which is buffer "in".

DecodeOptions == [Lazy : BOOLEAN, NoCopy : BOOLEAN]
Engine(options) == IF options.Lazy THEN "lazy" ELSE "eager"

\* The options of a NewPacket call, as the call and ret records keep them.
OptionFlags(options) == {f \in {"Lazy", "NoCopy"} : options[f]}

\* Mutant: NewPacket never copies the caller's bytes.
NewPacketNeverCopies(data, firstLayerDecoder, options) ==
    LET e == Engine(options)
        d == Slice("in", 0, Len(data))
    IN /\ mem' = [mem EXCEPT !["in"] = data]
       /\ IF options.Lazy
          THEN /\ pk' = pk @@ (e :> initialSlice([packet("lazyPacket", d)
                                               EXCEPT !.next = firstLayerDecoder]))
               /\ UNCHANGED <<call, stack, fault>>
               /\ ret' = [NoRet EXCEPT !.fn = "NewPacket", !.on = e,
                                       !.arg = OptionFlags(options)]
          ELSE /\ pk' = pk @@ (e :> IF firstLayerDecoder = NilDecoder
                                     THEN initialSlice(packet("eagerPacket", d))
                                     ELSE Decode(initialSlice(packet("eagerPacket", d))))
               /\ call' = [NoCall EXCEPT !.fn = "NewPacket", !.on = e,
                                         !.arg = OptionFlags(options)]
               /\ ret' = ret
               /\ IF firstLayerDecoder = NilDecoder
                  THEN /\ stack' = <<>>
                       /\ fault' = [kind |-> "value", msg |-> nilDereference]
                  ELSE /\ stack' = <<Frame(firstLayerDecoder, d)>>
                       /\ fault' = fault

NewPacket(data, firstLayerDecoder, options) ==
    LET e == Engine(options)
        d == Slice(IF options.NoCopy THEN "in" ELSE e, 0, Len(data))
    IN /\ mem' = IF options.NoCopy THEN [mem EXCEPT !["in"] = data]
                 ELSE [mem EXCEPT !["in"] = data, ![e] = data]
       /\ IF options.Lazy
          THEN /\ pk' = pk @@ (e :> initialSlice([packet("lazyPacket", d)
                                               EXCEPT !.next = firstLayerDecoder]))
               /\ UNCHANGED <<call, stack, fault>>
               /\ ret' = [NoRet EXCEPT !.fn = "NewPacket", !.on = e,
                                       !.arg = OptionFlags(options)]
          ELSE /\ pk' = pk @@ (e :> IF firstLayerDecoder = NilDecoder
                                     THEN initialSlice(packet("eagerPacket", d))
                                     ELSE Decode(initialSlice(packet("eagerPacket", d))))
               /\ call' = [NoCall EXCEPT !.fn = "NewPacket", !.on = e,
                                         !.arg = OptionFlags(options)]
               /\ ret' = ret
               \* p.initialDecode(firstLayerDecoder): dec.Decode(p.data, p);
               \* calling a nil Decoder is a nil dereference panic.
               /\ IF firstLayerDecoder = NilDecoder
                  THEN /\ stack' = <<>>
                       /\ fault' = [kind |-> "value", msg |-> nilDereference]
                  ELSE /\ stack' = <<Frame(firstLayerDecoder, d)>>
                       /\ fault' = fault

\* The caller builds a packet from its buffer; it builds its eager and its
\* lazy packet with the same NoCopy.
CallNewPacket(options) ==
    /\ call = NoCall
    /\ cons.mode = "direct"
    /\ Engine(options) \notin DOMAIN pk
    /\ \A o \in DOMAIN pk : (pk[o].data.buf = "in") = options.NoCopy
    /\ NewPacket(mem["in"], first, options)
    /\ UNCHANGED <<first, svars>>

----------------------------------------------------------------------------
\* The accessors.

RoleGetters ==
    [ LinkLayer |-> "link", NetworkLayer |-> "network", TransportLayer |-> "transport",
      ApplicationLayer |-> "application", ErrorLayer |-> "failure" ]
LayerClasses == {{"TCP", "UDP"}, {"Payload", DecodeFailureType}}
\* The calls a caller can make: <<accessor, argument>>.
Accessors ==
    ({"LinkLayer", "NetworkLayer", "TransportLayer", "ApplicationLayer",
      "ErrorLayer", "Layers", "String"} \X {{}})
    \cup ({"Layer"} \X {{t} : t \in {"TCP", "Payload", DecodeFailureType}})
    \cup ({"LayerClass"} \X LayerClasses)

\* The first layer of ls after the first `from` whose type is in class c.
FirstIn(ls, from, c) ==
    IF \E i \in (from + 1)..Len(ls) : LayerType(ls[i]) \in c
    THEN ls[CHOOSE i \in (from + 1)..Len(ls) :
               /\ LayerType(ls[i]) \in c
               /\ \A j \in (from + 1)..(i - 1) : LayerType(ls[j]) \notin c]
    ELSE NilLayer

\* What accessor fn returns on packet p without decoding further.
Lookup(p, fn, arg, from) ==
    IF fn \in DOMAIN RoleGetters THEN p[RoleGetters[fn]]
    ELSE IF WantsAll(fn) THEN NilLayer
    ELSE FirstIn(p.layers, from, arg)

\* eagerPacket accessors (packet.go:170-204): plain reads.
EagerAccessor(fn, arg) ==
    /\ call = NoCall /\ "eager" \in DOMAIN pk
    /\ LET c == [fn |-> fn, on |-> "eager", arg |-> arg, numLayers |-> 0]
       IN ret' = RetOf(c, Lookup(pk["eager"], fn, arg, 0), pk["eager"].layers)
    /\ UNCHANGED <<mem, first, pk, call, stack, fault, svars>>

\* Mutant: an accessor of a lazy packet starts the decoding over.
LazyAccessorRestarts(fn, arg) ==
    /\ call = NoCall /\ "lazy" \in DOMAIN pk
    /\ call' = [fn |-> fn, on |-> "lazy", arg |-> arg, numLayers |-> 0]
    /\ pk' = [pk EXCEPT !["lazy"].next = first]
    /\ UNCHANGED <<mem, first, stack, fault, ret, svars>>

\* Mutant: Layer and LayerClass do not scan the layers already decoded.
LazyAccessorSkipsDecoded(fn, arg) ==
    /\ call = NoCall /\ "lazy" \in DOMAIN pk
    /\ call' = [fn |-> fn, on |-> "lazy", arg |-> arg,
                numLayers |-> IF fn \in {"Layer", "LayerClass"}
                              THEN Len(pk["lazy"].layers) ELSE 0]
    /\ UNCHANGED <<mem, first, pk, stack, fault, ret, svars>>

\* A lazyPacket accessor is entered (packet.go:243-315).
LazyAccessor(fn, arg) ==
    /\ call = NoCall /\ "lazy" \in DOMAIN pk
    /\ call' = [fn |-> fn, on |-> "lazy", arg |-> arg, numLayers |-> 0]
    /\ UNCHANGED <<mem, first, pk, stack, fault, ret, svars>>

\* The accessor is at the head of its loop.
AtLoopHead ==
    /\ call # NoCall /\ call.on = "lazy"
    /\ stack = <<>> /\ fault = NoFault
\* Mutant: every accessor decodes until no decoder is pending.
LoopCondDrainsAll == P.next # NilDecoder

\* The loop condition of the accessor in progress: its answer is not there
\* yet and a decoder is pending.
LoopCond ==
    /\ P.next # NilDecoder
    /\ \/ WantsAll(call.fn)
       \/ Lookup(P, call.fn, call.arg, call.numLayers) = NilLayer /\ ~WantsAll(call.fn)

\* Mutant: the scan of the new layers starts one layer late.
decodeNextLayerSkipsOne ==
    /\ AtLoopHead /\ LoopCond
    /\ LET d == IF P.last # NilLayer THEN LayerPayload(P.last) ELSE P.data
           next == P.next
       IN /\ pk' = [pk EXCEPT ![call.on] =
                        IF d.len = 0 THEN [@ EXCEPT !.next = NilDecoder]
                        ELSE Decode([@ EXCEPT !.next = NilDecoder])]
          /\ stack' = IF d.len = 0 THEN <<>> ELSE <<Frame(next, d)>>
    /\ call' = [call EXCEPT !.numLayers = IF call.fn \in {"Layer", "LayerClass"}
                                          THEN Len(P.layers) + 1 ELSE @]
    /\ UNCHANGED <<mem, first, fault, ret, svars>>

\* Mutant: the pending decoder is invoked on an empty payload too.
decodeNextLayerNoEmptyCheck ==
    /\ AtLoopHead /\ LoopCond
    /\ LET d == IF P.last # NilLayer THEN LayerPayload(P.last) ELSE P.data
           next == P.next
       IN /\ pk' = [pk EXCEPT ![call.on] = Decode([@ EXCEPT !.next = NilDecoder])]
          /\ stack' = <<Frame(next, d)>>
    /\ call' = [call EXCEPT !.numLayers = IF call.fn \in {"Layer", "LayerClass"}
                                          THEN Len(P.layers) ELSE @]
    /\ UNCHANGED <<mem, first, fault, ret, svars>>

\* lazyPacket.decodeNextLayer (packet.go:222-238) up to the call of next.Decode.
decodeNextLayer ==
    /\ AtLoopHead /\ LoopCond
    /\ LET d == IF P.last # NilLayer THEN LayerPayload(P.last) ELSE P.data
           next == P.next
       IN /\ pk' = [pk EXCEPT ![call.on] =
                        IF d.len = 0 THEN [@ EXCEPT !.next = NilDecoder]
                        ELSE Decode([@ EXCEPT !.next = NilDecoder])]
          /\ stack' = IF d.len = 0 THEN <<>> ELSE <<Frame(next, d)>>
    /\ call' = [call EXCEPT !.numLayers = IF call.fn \in {"Layer", "LayerClass"}
                                          THEN Len(P.layers) ELSE @]
    /\ UNCHANGED <<mem, first, fault, ret, svars>>

\* The accessor's loop ends and it returns.
LazyAccessorReturn ==
    /\ AtLoopHead /\ ~LoopCond
    /\ ret' = RetOf(call, Lookup(P, call.fn, call.arg, call.numLayers), P.layers)
    /\ call' = NoCall
    /\ UNCHANGED <<mem, first, pk, stack, fault, svars>>

----------------------------------------------------------------------------
\* The packet engine driven by one caller: it builds an eager and a lazy
\* packet from the same bytes and decoder and calls their accessors.

Inputs == {[i \in 1..n |-> i] : n \in 0..MaxLen}

NoNP == [by |-> "none", state |-> "none",
         ci |-> [Populated |-> FALSE, Length |-> 0, Timestamp |-> 0]]
NoSource == [reads |-> <<>>, pos |-> 0, DecodeOptions |-> [Lazy |-> FALSE, NoCopy |-> FALSE]]
NoPacket == [kind |-> "nil", data |-> <<>>, layers |-> <<>>, next |-> NilDecoder,
             capInfo |-> NoNP.ci, aliased |-> FALSE]
NoTask == [pc |-> "none", closed |-> FALSE, packet |-> NoPacket]

Init ==
    /\ \E in \in Inputs : mem = [in |-> in, eager |-> <<>>, lazy |-> <<>>]
    /\ first \in DecIds \cup {NilDecoder}
    /\ pk = <<>>
    /\ call = NoCall
    /\ stack = <<>>
    /\ fault = NoFault
    /\ ret = NoRet
    /\ psrc = NoSource
    /\ np = NoNP
    /\ task = NoTask
    /\ cons = [mode |-> "direct", stopped |-> FALSE, ended |-> FALSE]
    /\ out = <<>>
    /\ thr = NoThread

DecodeStep ==
    \/ DecoderAddLayer
    \/ DecoderSetLayer
    \/ eagerNextDecoder
    \/ eagerNextDecoderReturn
    \/ lazyNextDecoder
    \/ DecoderPanic
    \/ initialDecode
    \/ decodeNextLayerReturn
    \/ RecoverDecodeError

Next ==
    \/ \E o \in DecodeOptions : CallNewPacket(o)
    \/ \E a \in Accessors : EagerAccessor(a[1], a[2])
    \/ \E a \in Accessors : LazyAccessor(a[1], a[2])
    \/ decodeNextLayer
    \/ LazyAccessorReturn
    \/ DecodeStep

Spec == Init /\ [][Next]_vars

----------------------------------------------------------------------------
\* PacketSource (packet.go:432-489) over a scripted PacketDataSource.

EOF == "EOF"
\* What ReadPacketData answers: bytes and capture metadata, or an error.
ReadOk(n, t) == [err |-> NoErr, data |-> [i \in 1..n |-> i],
                 ci |-> [Populated |-> TRUE, Length |-> n, Timestamp |-> t]]
ReadErr(m) == [err |-> m, data |-> <<>>, ci |-> NoNP.ci]
\* The read number k of a source that answers `reads` and then end-of-stream.
ReadPacketData(reads, k) == IF k <= Len(reads) THEN reads[k] ELSE ReadErr(EOF)

\* The data sources: every sequence of at most MaxReads answers, each a
\* packet of one or two bytes or an error other than end-of-stream; a
\* packet's Timestamp is the number of the read that returned it.
Answer(a, k) ==
    CASE a = "short" -> ReadOk(1, k)
      [] a = "long" -> ReadOk(2, k)
      [] a = "timeout" -> ReadErr("timeout")
Sources ==
    UNION { { [k \in 1..n |-> Answer(f[k], k)] : f \in [1..n -> {"short", "long", "timeout"}] } :
            n \in 0..MaxReads }
SourceDecoders == {"Eth", "Vlan"}

\* NewPacketSource (packet.go:442-447), and the user setting DecodeOptions.
NewPacketSource(source, options) == [reads |-> source, pos |-> 0, DecodeOptions |-> options]

\* The packet a caller holds, by value.
Snap(p, m) ==
    [ kind |-> p.kind, data |-> Bytes(m, p.data), capInfo |-> p.capInfo,
      layers |-> [i \in 1..Len(p.layers) |-> LayerType(p.layers[i])],
      next |-> p.next, aliased |-> p.data.buf = "in" ]

\* Mutant: packetsToChannel closes the channel on every error.
ReturnClosesOnAnyError(by, pkt, err) ==
    /\ np' = NoNP
    /\ IF by = "caller"
       THEN /\ out' = Append(out, [packet |-> pkt, err |-> err])
            /\ task' = task
       ELSE /\ out' = out
            /\ task' = IF err # NoErr THEN [task EXCEPT !.pc = "done", !.closed = TRUE]
                       ELSE [task EXCEPT !.pc = "send", !.packet = pkt]

\* Mutant: packetsToChannel gives up a send nobody is there to receive.
ReturnDropsWhenBlocked(by, pkt, err) ==
    /\ np' = NoNP
    /\ IF by = "caller"
       THEN /\ out' = Append(out, [packet |-> pkt, err |-> err])
            /\ task' = task
       ELSE /\ out' = out
            /\ task' = IF err = EOF THEN [task EXCEPT !.pc = "done", !.closed = TRUE]
                       ELSE task

\* NextPacket returns (packet, err) to `by`: to its caller, or to
\* packetsToChannel (packet.go:466-472), which closes the channel on
\* end-of-stream, sends a packet, and drops any other error.
Return(by, pkt, err) ==
    /\ np' = NoNP
    /\ IF by = "caller"
       THEN /\ out' = Append(out, [packet |-> pkt, err |-> err])
            /\ task' = task
       ELSE /\ out' = out
            /\ task' = IF err = EOF THEN [task EXCEPT !.pc = "done", !.closed = TRUE]
                       ELSE IF err = NoErr THEN [task EXCEPT !.pc = "send", !.packet = pkt]
                       ELSE task

\* PacketSource.NextPacket (packet.go:451-456): the read and, on success,
\* the call of NewPacket.
NextPacketBy(by) ==
    /\ np = NoNP /\ call = NoCall
    /\ LET r == ReadPacketData(psrc.reads, psrc.pos + 1)
       IN /\ psrc' = [psrc EXCEPT !.pos = @ + 1]
          /\ IF r.err # NoErr
             THEN /\ Return(by, NoPacket, r.err)
                  /\ UNCHANGED <<mem, pk, call, stack, fault, ret>>
             ELSE /\ NewPacket(r.data, first, psrc.DecodeOptions)
                  /\ np' = [by |-> by, state |-> "building", ci |-> r.ci]
                  /\ UNCHANGED <<task, out>>
    /\ UNCHANGED <<first, cons, thr>>

\* The user pulls: packetSource.NextPacket().  It stops asking after the
\* second end-of-stream.
NextPacket ==
    /\ cons.mode = "pull"
    /\ psrc.pos <= Len(psrc.reads) + 1
    /\ NextPacketBy("caller")

\* Mutant: the packet is returned without the capture info of the read.
NextPacketReturnNoCaptureInfo ==
    /\ np # NoNP /\ call = NoCall
    /\ LET e == Engine(psrc.DecodeOptions)
       IN /\ Return(np.by, Snap(pk[e], mem), NoErr)
          /\ pk' = [x \in DOMAIN pk \ {e} |-> pk[x]]
    /\ UNCHANGED <<mem, first, call, stack, fault, ret, psrc, cons, thr>>

\* PacketSource.NextPacket (packet.go:457-458) once NewPacket has returned:
\* the capture info is set and the packet returned.
NextPacketReturn ==
    /\ np # NoNP /\ call = NoCall
    /\ LET e == Engine(psrc.DecodeOptions)
           p == [pk[e] EXCEPT !.capInfo = np.ci]
       IN /\ Return(np.by, Snap(p, mem), NoErr)
          /\ pk' = [x \in DOMAIN pk \ {e} |-> pk[x]]
    /\ UNCHANGED <<mem, first, call, stack, fault, ret, psrc, cons, thr>>

\* PacketSource.Packets (packet.go:485-489).
Packets ==
    /\ cons.mode = "push" /\ task.pc = "none"
    /\ task' = [task EXCEPT !.pc = "loop"]
    /\ UNCHANGED <<mem, first, pk, call, stack, fault, ret, psrc, np, cons, out, thr>>

\* Mutant: the goroutine reads on while its send is pending.
packetsToChannelReadsAhead ==
    /\ task.pc \in {"loop", "send"}
    /\ NextPacketBy("task")

\* PacketSource.packetsToChannel (packet.go:464-474): one turn of its loop.
packetsToChannel ==
    /\ task.pc = "loop"
    /\ NextPacketBy("task")

\* The user receives from the channel: the send of the goroutine completes.
Receive ==
    /\ task.pc = "send" /\ ~cons.stopped
    /\ out' = Append(out, [packet |-> task.packet, err |-> NoErr])
    /\ task' = [task EXCEPT !.pc = "loop", !.packet = NoPacket]
    /\ UNCHANGED <<mem, first, pk, call, stack, fault, ret, psrc, np, cons, thr>>

\* The user's range loop finds the channel closed and ends.
ReceiveClosed ==
    /\ task.closed /\ ~cons.stopped /\ ~cons.ended
    /\ cons' = [cons EXCEPT !.ended = TRUE]
    /\ UNCHANGED <<mem, first, pk, call, stack, fault, ret, psrc, np, task, out, thr>>

\* The user stops receiving before the channel is closed.
StopReceiving ==
    /\ cons.mode = "push" /\ task.pc # "none"
    /\ ~cons.stopped /\ ~cons.ended
    /\ cons' = [cons EXCEPT !.stopped = TRUE]
    /\ UNCHANGED <<mem, first, pk, call, stack, fault, ret, psrc, np, task, out, thr>>

InitSource ==
    /\ mem = [in |-> <<>>, eager |-> <<>>, lazy |-> <<>>]
    /\ first \in SourceDecoders
    /\ pk = <<>>
    /\ call = NoCall
    /\ stack = <<>>
    /\ fault = NoFault
    /\ ret = NoRet
    /\ \E rs \in Sources, o \in DecodeOptions : psrc = NewPacketSource(rs, o)
    /\ np = NoNP
    /\ task = NoTask
    /\ \E m \in {"pull", "push"} : cons = [mode |-> m, stopped |-> FALSE, ended |-> FALSE]
    /\ out = <<>>
    /\ thr = NoThread

\* NewPacket decoding eagerly inside NextPacket (a lazy packet is returned
\* undecoded).
EagerDecodeStep ==
    \/ DecoderAddLayer
    \/ DecoderSetLayer
    \/ eagerNextDecoder
    \/ eagerNextDecoderReturn
    \/ DecoderPanic
    \/ initialDecode
    \/ RecoverDecodeError

TaskStep == packetsToChannel \/ NextPacketReturn \/ EagerDecodeStep

NextSource ==
    \/ NextPacket
    \/ Packets
    \/ Receive
    \/ ReceiveClosed
    \/ StopReceiving
    \/ TaskStep

SpecSource == InitSource /\ [][NextSource]_vars

\* The goroutine of Packets() keeps running, and a user that has not stopped
\* receiving takes what is sent to it.
FairSpecSource ==
    SpecSource /\ WF_vars(TaskStep) /\ WF_vars(Receive) /\ WF_vars(ReceiveClosed)

\* A running call always takes its next step: the Go scheduler keeps running
\* the goroutine that made the call.
FairSpec == Spec /\ WF_vars(DecodeStep \/ decodeNextLayer \/ LazyAccessorReturn)

----------------------------------------------------------------------------
\* The caller writes to the slice it handed to NewPacket.

\* The caller overwrites one byte of its slice, between two calls; it does
\* so once.
MutateInput ==
    /\ call = NoCall /\ cons.mode = "direct"
    /\ pk # <<>>
    /\ \A j \in 1..Len(mem["in"]) : mem["in"][j] = j
    /\ \E i \in 1..Len(mem["in"]) : mem' = [mem EXCEPT !["in"][i] = 0]
    /\ UNCHANGED <<first, pk, call, stack, fault, ret, svars>>

\* The first decoders of the packets whose input the caller overwrites.
MutateDecoders == {"Eth", "Vlan"}

InitMutate == Init /\ first \in MutateDecoders

NextMutate ==
    \/ Next
    \/ MutateInput

SpecMutate == InitMutate /\ [][NextMutate]_vars

----------------------------------------------------------------------------
\* Two goroutines call accessors of one lazy packet.  The variables call,
\* stack and fault are those of the goroutine that is running; thr holds the
\* registers of the other one.  The packet's methods take no lock and use
\* no atomic, so nothing orders the accesses of the two: they interleave at
\* every read and every write of a field of the packet, and a store of one
\* goroutine reaches the memory the other one reads at some later moment.
\* Each goroutine has a store buffer (sb), as long as it needs: a store
\* enters it in program order, Flush takes a store from it to memory,
\* stores to different fields in any order, and the goroutine itself reads
\* the newest value it has stored.  pk["lazy"] is the memory.

Me == thr.run
Other == thr.park.loc
RaceRole == RoleGetters[call.fn]
\* The running goroutine is in the loop of an accessor, between statements.
InAccessor == call # NoCall /\ call.on = "lazy" /\ fault = NoFault /\ stack = <<>>
\* The running goroutine is in recoverDecodeError with a recovered value.
InRecover == call # NoCall /\ fault # NoFault /\ fault.kind # "fatal"

\* The stores: to p.next, p.last, the header of p.layers, element i of
\* array arr, and a role pointer.
StoreNext(d) == [NoStore EXCEPT !.f = "next", !.dec = d]
StoreLast(l) == [NoStore EXCEPT !.f = "last", !.l = l]
StoreLayers(h) == [NoStore EXCEPT !.f = "layers", !.h = h]
StoreSlot(arr, i, l) == [NoStore EXCEPT !.f = "slot", !.arr = arr, !.i = i, !.l = l]
StoreRole(r, l) == [NoStore EXCEPT !.f = r, !.l = l]
\* The memory location a store goes to.
Loc(e) == <<e.f, e.arr, e.i>>

\* Packet p once store e has reached it.
Perform(p, e) ==
    IF e.f = "next" THEN [p EXCEPT !.next = e.dec]
    ELSE IF e.f = "last" THEN [p EXCEPT !.last = e.l]
    ELSE IF e.f = "layers" THEN [p EXCEPT !.hdr = e.h]
    ELSE IF e.f = "slot" THEN [p EXCEPT !.arrays[e.arr][e.i] = e.l]
    ELSE [p EXCEPT ![e.f] = e.l]
RECURSIVE PerformAll(_, _)
PerformAll(p, sb) ==
    IF sb = <<>> THEN p ELSE PerformAll(Perform(p, Head(sb)), Tail(sb))
\* p with what p.layers shows.
Shown(p) == [p EXCEPT !.layers = View(p.arrays, p.hdr)]
\* The packet as a goroutine with the stores sb in its buffer reads it: its
\* own stores on top of the memory.
Seen(sb) == Shown(PerformAll(pk["lazy"], sb))
MyPacket == Seen(Me.sb)
\* The locals of a goroutine outside the statements of decodeNextLayer and
\* AddLayer, with one more store done.
After(e) == [NoLocals EXCEPT !.sb = Append(Me.sb, e), !.called = Me.called]

\* Each goroutine makes one call of an accessor of the lazy packet
\* (packet.go:243-315).
RaceAccessor(fn, arg) ==
    /\ call = NoCall /\ "lazy" \in DOMAIN pk
    /\ ~Me.called
    /\ call' = [fn |-> fn, on |-> "lazy", arg |-> arg, numLayers |-> 0]
    /\ thr' = [thr EXCEPT !.run.called = TRUE]
    /\ UNCHANGED <<mem, first, pk, stack, fault, ret, psrc, np, task, cons, out>>

\* The scheduler runs the other goroutine.  Leaving a goroutine inside a
\* call, or with stores that have not reached memory, makes the calls of
\* the two concurrent: nothing orders the one before the other.
Switch ==
    /\ "lazy" \in DOMAIN pk
    /\ fault.kind # "fatal"
    /\ call' = thr.park.call
    /\ stack' = thr.park.stack
    /\ fault' = thr.park.fault
    /\ thr' = [thr EXCEPT !.run = thr.park.loc,
                          !.park = [call |-> call, stack |-> stack, fault |-> fault,
                                    loc |-> thr.run],
                          !.overlapped = thr.overlapped \/ call # NoCall \/ Me.sb # <<>>]
    /\ UNCHANGED <<mem, first, pk, ret, psrc, np, task, cons, out>>

\* Store i of a buffer is the oldest one to its location.
Oldest(sb, i) == \A j \in 1..(i - 1) : Loc(sb[j]) # Loc(sb[i])
Without(sb, i) == SubSeq(sb, 1, i - 1) \o SubSeq(sb, i + 1, Len(sb))
\* A store of either goroutine reaches memory.  From now on the other
\* goroutine reads it, unless a store of its own to the same field is
\* still in its buffer.
Flush ==
    /\ "lazy" \in DOMAIN pk
    /\ fault.kind # "fatal"
    /\ \/ \E i \in DOMAIN Me.sb :
             /\ Oldest(Me.sb, i)
             /\ pk' = [pk EXCEPT !["lazy"] = Shown(Perform(@, Me.sb[i]))]
             /\ thr' = [thr EXCEPT !.run.sb = Without(@, i)]
       \/ \E i \in DOMAIN Other.sb :
             /\ Oldest(Other.sb, i)
             /\ pk' = [pk EXCEPT !["lazy"] = Shown(Perform(@, Other.sb[i]))]
             /\ thr' = [thr EXCEPT !.park.loc.sb = Without(@, i)]
    /\ UNCHANGED <<mem, first, call, stack, fault, ret, psrc, np, task, cons, out>>

\* The accessor's loop condition, first operand (packet.go:254 and the
\* like): a role getter reads its role pointer.
LoopReadRole ==
    /\ InAccessor /\ Me.pc = "" /\ ~WantsAll(call.fn)
    /\ thr' = [thr EXCEPT !.run.pc = IF MyPacket[RaceRole] = NilLayer THEN "cond" ELSE "ret"]
    /\ UNCHANGED <<mem, first, pk, call, stack, fault, ret, psrc, np, task, cons, out>>

\* The loop condition `p.next != nil` (packet.go:274, and second operand of
\* 254): with a decoder pending decodeNextLayer is called.
LoopReadNext ==
    /\ InAccessor
    /\ \/ Me.pc = "cond"
       \/ Me.pc = "" /\ WantsAll(call.fn)
    /\ thr' = [thr EXCEPT !.run.pc = IF MyPacket.next = NilDecoder THEN "ret" ELSE "223"]
    /\ UNCHANGED <<mem, first, pk, call, stack, fault, ret, psrc, np, task, cons, out>>

\* The accessor's return statement reads the role pointer or p.layers
\* (packet.go:257, 277).
AccessorReadResult ==
    /\ InAccessor /\ Me.pc = "ret"
    /\ ret' = RetOf(call, Lookup(MyPacket, call.fn, call.arg, 0), MyPacket.layers)
    /\ call' = NoCall
    /\ thr' = [thr EXCEPT !.run.pc = ""]
    /\ UNCHANGED <<mem, first, pk, stack, fault, psrc, np, task, cons, out>>

\* lazyPacket.decodeNextLayer, `if p.next == nil { return }` (packet.go:223).
decodeNextLayerCheck ==
    /\ InAccessor /\ Me.pc = "223"
    /\ thr' = [thr EXCEPT !.run.pc = IF MyPacket.next = NilDecoder THEN "" ELSE "227"]
    /\ UNCHANGED <<mem, first, pk, call, stack, fault, ret, psrc, np, task, cons, out>>

\* `d := p.data; if p.last != nil` (packet.go:226-227).
decodeNextLayerLast ==
    /\ InAccessor /\ Me.pc = "227"
    /\ thr' = [thr EXCEPT !.run.d = MyPacket.data,
                          !.run.pc = IF MyPacket.last = NilLayer THEN "230" ELSE "228"]
    /\ UNCHANGED <<mem, first, pk, call, stack, fault, ret, psrc, np, task, cons, out>>

\* `d = p.last.LayerPayload()` (packet.go:228): p.last is read again.
decodeNextLayerPayload ==
    /\ InAccessor /\ Me.pc = "228"
    /\ thr' = [thr EXCEPT !.run.d = LayerPayload(MyPacket.last), !.run.pc = "230"]
    /\ UNCHANGED <<mem, first, pk, call, stack, fault, ret, psrc, np, task, cons, out>>

\* `next := p.next` (packet.go:230): by now it may be nil.
decodeNextLayerRead ==
    /\ InAccessor /\ Me.pc = "230"
    /\ thr' = [thr EXCEPT !.run.next = MyPacket.next, !.run.pc = "231"]
    /\ UNCHANGED <<mem, first, pk, call, stack, fault, ret, psrc, np, task, cons, out>>

\* `p.next = nil` (packet.go:231), a store, and what follows on locals
\* only: the return on an empty d, else next.Decode(d, p), which with a nil
\* next panics in the reach of the deferred recoverDecodeError.
decodeNextLayerInvoke ==
    /\ InAccessor /\ Me.pc = "231"
    /\ pk' = IF Me.d.len = 0 \/ Me.next = NilDecoder THEN pk
             ELSE [pk EXCEPT ![call.on] = Decode(@)]
    /\ stack' = IF Me.d.len = 0 \/ Me.next = NilDecoder THEN <<>>
                ELSE <<Frame(Me.next, Me.d)>>
    /\ fault' = IF Me.d.len # 0 /\ Me.next = NilDecoder
                THEN [kind |-> "value", msg |-> nilDereference]
                ELSE fault
    /\ thr' = [thr EXCEPT !.run = After(StoreNext(NilDecoder))]
    /\ UNCHANGED <<mem, first, call, ret, psrc, np, task, cons, out>>

\* Mutant: NextDecoder returns nil without queueing the decoder.
lazyNextDecoderStoreForgets ==
    /\ Running /\ CurOp.op = "next" /\ call.on = "lazy" /\ Me.pc = ""
    /\ IF CurOp.next = NilDecoder
       THEN stack' = SetTop([Top EXCEPT !.err = nilDecoderError])
       ELSE stack' = SetTop(Advance)
    /\ UNCHANGED <<mem, first, pk, call, fault, ret, thr, psrc, np, task, cons, out>>

\* lazyPacket.NextDecoder (packet.go:215-221): `p.next = next` is a store.
lazyNextDecoderStore ==
    /\ Running /\ CurOp.op = "next" /\ call.on = "lazy" /\ Me.pc = ""
    /\ IF CurOp.next = NilDecoder
       THEN stack' = SetTop([Top EXCEPT !.err = nilDecoderError]) /\ thr' = thr
       ELSE /\ thr' = [thr EXCEPT !.run.sb = Append(@, StoreNext(CurOp.next))]
            /\ stack' = SetTop(Advance)
    /\ UNCHANGED <<mem, first, pk, call, fault, ret, psrc, np, task, cons, out>>

\* packet.recoverDecodeError, `if p.last == nil` (packet.go:122).
recoverReadLast ==
    /\ InRecover /\ Me.pc = ""
    /\ thr' = [thr EXCEPT !.run.d = MyPacket.data,
                          !.run.pc = IF MyPacket.last = NilLayer THEN "110" ELSE "125"]
    /\ UNCHANGED <<mem, first, pk, call, stack, fault, ret, psrc, np, task, cons, out>>

\* `fail.data = p.last.LayerPayload()` (packet.go:125): p.last is read again.
recoverPayload ==
    /\ InRecover /\ Me.pc = "125"
    /\ thr' = [thr EXCEPT !.run.d = LayerPayload(MyPacket.last), !.run.pc = "110"]
    /\ UNCHANGED <<mem, first, pk, call, stack, fault, ret, psrc, np, task, cons, out>>

\* packet.AddLayer, `append(p.layers, l)` (packet.go:110): the header of
\* p.layers is read.  l is the layer a decoder built from its buffer, or the
\* DecodeFailure of recoverDecodeError.
AddLayerRead ==
    /\ \/ Running /\ CurOp.op = "add" /\ ~Short /\ Me.pc = ""
       \/ InRecover /\ Me.pc = "110"
    /\ LET n == MyPacket.hdr.len + 1
           k == Eaten(CurOp, Top.buf)
           l == IF fault # NoFault
                THEN [ id |-> n, type |-> DecodeFailureType, err |-> Errorf(fault),
                       contents |-> Me.d, payload |-> DecodeFailurePayload ]
                ELSE [ id |-> n, type |-> CurOp.type, err |-> NoErr,
                       contents |-> Slice(Top.buf.buf, Top.buf.lo, k),
                       payload |-> Slice(Top.buf.buf, Top.buf.lo + k, Top.buf.len - k) ]
       IN thr' = [thr EXCEPT !.run.pc = "append", !.run.hdr = MyPacket.hdr, !.run.l = l]
    /\ UNCHANGED <<mem, first, pk, call, stack, fault, ret, psrc, np, task, cons, out>>

\* append itself.  With room in the array its stores are the layer into its
\* slot and then (packet.go:110, 111) the header into p.layers and l into
\* p.last.  Without room it allocates a larger array first, zeroed, and
\* stores into it the elements it reads from the old one and the layer
\* after them.  The stores are in program order here; they reach memory in
\* any order.
AddLayerAppend ==
    /\ call # NoCall /\ fault.kind # "fatal" /\ Me.pc = "append"
    /\ LET h == Me.hdr
           free == CHOOSE i \in DOMAIN P.arrays :
                       /\ i > 1 /\ P.arrays[i] = <<>>
                       /\ \A j \in DOMAIN P.arrays : (j > 1 /\ P.arrays[j] = <<>>) => i <= j
           g == [arr |-> free, len |-> h.len + 1, cap |-> GrowCap(h.cap)]
       IN IF h.len < h.cap
          THEN /\ thr' = [thr EXCEPT
                            !.run.hdr.len = h.len + 1,
                            !.run.todo = <<StoreSlot(h.arr, h.len + 1, Me.l),
                                           StoreLayers([h EXCEPT !.len = h.len + 1]),
                                           StoreLast(Me.l)>>,
                            !.run.pc = "stores"]
               /\ pk' = pk
          ELSE /\ thr' = [thr EXCEPT
                            !.run.hdr = g,
                            !.run.todo =
                                [i \in 1..h.len |->
                                    StoreSlot(free, i, MyPacket.arrays[h.arr][i])]
                                \o <<StoreSlot(free, h.len + 1, Me.l),
                                     StoreLayers(g), StoreLast(Me.l)>>,
                            !.run.pc = "stores"]
               /\ pk' = [pk EXCEPT !["lazy"].arrays[free] = [i \in 1..g.cap |-> NilLayer]]
    /\ UNCHANGED <<mem, first, call, stack, fault, ret, psrc, np, task, cons, out>>

\* The next store of AddLayer enters the store buffer.  After the last one
\* the decoder goes on with the layer it created, or recoverDecodeError is
\* done and decodeNextLayer returns.
AtStore(f) ==
    /\ call # NoCall /\ fault.kind # "fatal" /\ Me.pc = "stores"
    /\ Me.todo # <<>> /\ Head(Me.todo).f = f
Stored ==
    /\ pk' = pk
    /\ IF Len(Me.todo) = 1
       THEN /\ thr' = [thr EXCEPT !.run = After(Head(Me.todo))]
            /\ IF fault # NoFault
               THEN stack' = stack /\ fault' = NoFault
               ELSE stack' = SetTop([Advance EXCEPT !.cur = Me.l]) /\ fault' = fault
       ELSE /\ thr' = [thr EXCEPT !.run.sb = Append(@, Head(Me.todo)),
                                  !.run.todo = Tail(@)]
            /\ UNCHANGED <<stack, fault>>

\* The layer is written into its slot of the array.
AddLayerSlot ==
    /\ AtStore("slot")
    /\ Stored
    /\ UNCHANGED <<mem, first, call, ret, psrc, np, task, cons, out>>

\* `p.layers = ...` (packet.go:110): the header append returned is stored.
AddLayerWrite ==
    /\ AtStore("layers")
    /\ Stored
    /\ UNCHANGED <<mem, first, call, ret, psrc, np, task, cons, out>>

\* `p.last = l` (packet.go:111).
AddLayerLast ==
    /\ AtStore("last")
    /\ Stored
    /\ UNCHANGED <<mem, first, call, ret, psrc, np, task, cons, out>>

\* packet.Set<Role>Layer, `if p.role == nil` (packet.go:95 and the like).
SetLayerCheck ==
    /\ Running /\ CurOp.op = "set" /\ Me.pc = ""
    /\ IF MyPacket[CurOp.role] = NilLayer
       THEN stack' = stack /\ thr' = [thr EXCEPT !.run.pc = "96"]
       ELSE stack' = SetTop(Advance) /\ thr' = thr
    /\ UNCHANGED <<mem, first, pk, call, fault, ret, psrc, np, task, cons, out>>

\* `p.role = l` (packet.go:96), a store.
SetLayerStore ==
    /\ Running /\ CurOp.op = "set" /\ Me.pc = "96"
    /\ stack' = SetTop(Advance)
    /\ thr' = [thr EXCEPT !.run.pc = "",
                          !.run.sb = Append(@, StoreRole(CurOp.role, Top.cur))]
    /\ UNCHANGED <<mem, first, pk, call, fault, ret, psrc, np, task, cons, out>>

\* The locations the next statement of the running goroutine reads from
\* memory: those it reads and has no store of its own waiting for.
ReadsNext ==
    InAccessor /\ (Me.pc \in {"cond", "223", "230"} \/ (Me.pc = "" /\ WantsAll(call.fn)))
ReadsLast == (InAccessor /\ Me.pc \in {"227", "228"}) \/ (InRecover /\ Me.pc \in {"", "125"})
ReadsLayers ==
    \/ InAccessor /\ Me.pc = "ret" /\ WantsAll(call.fn)
    \/ InRecover /\ Me.pc = "110"
    \/ Running /\ CurOp.op = "add" /\ ~Short /\ Me.pc = ""
ReadsRole(r) ==
    \/ Running /\ CurOp.op = "set" /\ Me.pc = "" /\ CurOp.role = r
    \/ /\ InAccessor /\ ~WantsAll(call.fn) /\ RaceRole = r
       /\ Me.pc \in {"", "ret"}
ReadsSlot(arr, i) ==
    /\ call # NoCall /\ fault.kind # "fatal" /\ Me.pc = "append"
    /\ Me.hdr.len >= Me.hdr.cap /\ arr = Me.hdr.arr /\ i <= Me.hdr.len
Reading(e) ==
    /\ \A j \in DOMAIN Me.sb : Loc(Me.sb[j]) # Loc(e)
    /\ IF e.f = "next" THEN ReadsNext
       ELSE IF e.f = "last" THEN ReadsLast
       ELSE IF e.f = "layers" THEN ReadsLayers
       ELSE IF e.f = "slot" THEN ReadsSlot(e.arr, e.i)
       ELSE ReadsRole(e.f)

\* The fields are interfaces, two words wide (type, data), and a slice
\* header, three words wide.  Two values of one field that differ in more
\* than one word can be mixed by unsynchronised accesses into a value that
\* is neither: two layers of different types (nil has none), two different
\* decoders, two headers that differ in more than the length.
TearsLayer(a, b) == LayerType(a) # LayerType(b)
TearsDecoder(a, b) == a # b
TearsHdr(a, b) == Cardinality({k \in {"arr", "len", "cap"} : a[k] # b[k]}) >= 2
\* Store e would take the field from a value to one that can mix with it;
\* stores e and x to one location can mix.
Tears(p, e) ==
    IF e.f = "next" THEN TearsDecoder(p.next, e.dec)
    ELSE IF e.f = "last" THEN TearsLayer(p.last, e.l)
    ELSE IF e.f = "layers" THEN TearsHdr(p.hdr, e.h)
    ELSE IF e.f = "slot" THEN TearsLayer(p.arrays[e.arr][e.i], e.l)
    ELSE TearsLayer(p[e.f], e.l)
TearEachOther(e, x) ==
    /\ Loc(e) = Loc(x)
    /\ IF e.f = "next" THEN TearsDecoder(e.dec, x.dec)
       ELSE IF e.f = "layers" THEN TearsHdr(e.h, x.h)
       ELSE TearsLayer(e.l, x.l)

\* A read that falls between the word stores of a store of the other
\* goroutine reaching memory can get such a mixed value, and using it takes
\* the program anywhere.  That outcome is one state, the fault "fatal", in
\* which the program has stopped and of which no property says anything.
TornRead ==
    /\ "lazy" \in DOMAIN pk /\ fault.kind # "fatal"
    /\ \E i \in DOMAIN Other.sb :
          /\ Oldest(Other.sb, i)
          /\ Reading(Other.sb[i])
          /\ Tears(pk["lazy"], Other.sb[i])
    /\ fault' = [kind |-> "fatal", msg |-> "torn read"]
    /\ UNCHANGED <<mem, first, pk, call, stack, ret, thr, psrc, np, task, cons, out>>

\* Two stores to one field that reach memory at the same time can leave
\* such a mixed value in the field; the outcome is the same state.
TornWrite ==
    /\ "lazy" \in DOMAIN pk /\ fault.kind # "fatal"
    /\ \E i \in DOMAIN Me.sb : \E j \in DOMAIN Other.sb :
          /\ Oldest(Me.sb, i) /\ Oldest(Other.sb, j)
          /\ TearEachOther(Me.sb[i], Other.sb[j])
    /\ fault' = [kind |-> "fatal", msg |-> "torn write"]
    /\ UNCHANGED <<mem, first, pk, call, stack, ret, thr, psrc, np, task, cons, out>>

\* The accessor the two goroutines call, and the first decoder.
RaceAccessors == {<<"TransportLayer", {}>>}
RaceDecoders == {"TCP"}

\* The two goroutines work on a packet of RaceLen bytes.
RaceLen == 2
InitRace == Init /\ first \in RaceDecoders /\ Len(mem["in"]) = RaceLen

NextRace ==
    \/ CallNewPacket([Lazy |-> TRUE, NoCopy |-> FALSE])
    \/ \E a \in RaceAccessors : RaceAccessor(a[1], a[2])
    \/ Switch
    \/ Flush
    \/ LoopReadRole
    \/ LoopReadNext
    \/ AccessorReadResult
    \/ decodeNextLayerCheck
    \/ decodeNextLayerLast
    \/ decodeNextLayerPayload
    \/ decodeNextLayerRead
    \/ decodeNextLayerInvoke
    \/ AddLayerRead
    \/ AddLayerAppend
    \/ AddLayerSlot
    \/ AddLayerWrite
    \/ AddLayerLast
    \/ SetLayerCheck
    \/ SetLayerStore
    \/ lazyNextDecoderStore
    \/ decodeNextLayerReturn
    \/ recoverReadLast
    \/ recoverPayload
    \/ TornRead
    \/ TornWrite

SpecRace == InitRace /\ [][NextRace]_vars

----------------------------------------------------------------------------
\* Vocabulary of the properties.

Built(e) == e \in DOMAIN pk
Idle == call = NoCall
IsFailure(l) == LayerType(l) = DecodeFailureType
HasFailure(p) == \E i \in 1..Len(p.layers) : IsFailure(p.layers[i])
IsPrefix(s, t) == Len(s) <= Len(t) /\ SubSeq(t, 1, Len(s)) = s
\* A lazy packet with nothing left to decode.
Drained(p) == p.next = NilDecoder

\* What a caller can observe of a layer and of a packet: the bytes, not the
\* buffer they live in.
LayerView(l) ==
    [ id |-> l.id, type |-> l.type, err |-> l.err,
      contents |-> Bytes(mem, l.contents), payload |-> Bytes(mem, l.payload) ]
PacketView(p) ==
    [ layers |-> [i \in 1..Len(p.layers) |-> LayerView(p.layers[i])],
      link |-> LayerView(p.link), network |-> LayerView(p.network),
      transport |-> LayerView(p.transport), application |-> LayerView(p.application),
      failure |-> LayerView(p.failure) ]

\* The decoders a chain starting at d can run.
QueuedBy(d) == { Decoders[d][i].next : i \in 1..Len(Decoders[d]) } \cap DecIds
RECURSIVE ReachFrom(_, _)
ReachFrom(ds, n) ==
    IF n = 0 THEN ds
    ELSE ReachFrom(ds \cup UNION { QueuedBy(d) : d \in ds }, n - 1)
Chain(d) == IF d = NilDecoder THEN {} ELSE ReachFrom({d}, Cardinality(DecIds))

\* A decoder that calls NextDecoder only as its last statement, returning
\* its result, after it has added a layer.
NextLast(s) ==
    \A i \in 1..Len(s) : s[i].op = "next" =>
        i = Len(s) /\ \E j \in 1..(i - 1) : s[j].op = "add"
Orderly(d) == d # NilDecoder /\ \A x \in Chain(d) : NextLast(Decoders[x])

\* A decoder that queues a next decoder only when the layer it added last
\* before that took at least one byte off the buffer it was given: the next
\* decoder is handed the payload of p.last (packet.go:156, 228).
Shrinks(s) ==
    \A i \in 1..Len(s) : s[i].op = "next" =>
        \E j \in 1..(i - 1) :
            /\ s[j].op = "add" /\ ~s[j].all /\ s[j].eat >= 1
            /\ \A k \in (j + 1)..(i - 1) : s[k].op # "add"
Progressing(d) == \A x \in Chain(d) : Shrinks(Decoders[x])

\* The layer types whose decoder claims role r for them.
ClaimedBy(r) ==
    { t \in LayerTypes : \E d \in DecIds : \E i, j \in 1..Len(Decoders[d]) :
          /\ i < j /\ Decoders[d][i].op = "add" /\ Decoders[d][i].type = t
          /\ Decoders[d][j].op = "set" /\ Decoders[d][j].role = r }

----------------------------------------------------------------------------
\* C1 as stated: the eager packet and the fully drained lazy packet built
\* from the same bytes show the same layers, role pointers and error layer.
\* Taken here for the chains kindest to it, a non-nil first decoder and
\* decoders that call NextDecoder only as their last statement, after adding
\* a layer: the empty input buffer already tells the engines apart.
C1_EagerLazyEquivalent ==
    (Built("eager") /\ Built("lazy") /\ Idle /\ Drained(pk["lazy"]) /\ Orderly(first))
        => PacketView(pk["eager"]) = PacketView(pk["lazy"])

\* C2 as stated: ErrorLayer() returns non-nil exactly when the packet's
\* decoding stopped on a failed decode step.
C2_ErrorLayerIffFailed ==
    ret.fn = "ErrorLayer" => (ret.layer # NilLayer <=> HasFailure(pk[ret.on]))

\* C3: the step that recovers a failed decode step appends one failure layer
\* carrying the cause and the undecoded bytes (the whole buffer when the
\* packet has no layer, else the payload of the last layer), and a failure
\* layer is only ever the last layer of a packet.
C3_FailureLayerAppended ==
    /\ [][(fault # NoFault /\ fault.kind # "fatal" /\ fault' = NoFault) =>
            LET p == pk[call.on]
                q == pk'[call.on]
                f == q.layers[Len(q.layers)]
            IN /\ Len(q.layers) = Len(p.layers) + 1
               /\ SubSeq(q.layers, 1, Len(p.layers)) = p.layers
               /\ IsFailure(f)
               /\ f.err = fault.msg
               /\ Bytes(mem, f.contents) =
                    IF Len(p.layers) = 0 THEN Bytes(mem, p.data)
                    ELSE Bytes(mem, LayerPayload(p.layers[Len(p.layers)]))]_vars
    /\ [](\A e \in DOMAIN pk : \A i \in 1..Len(pk[e].layers) :
            IsFailure(pk[e].layers[i]) => i = Len(pk[e].layers))

C3_Witness ==
    \E e \in DOMAIN pk :
        /\ Len(pk[e].layers) = 2
        /\ IsFailure(pk[e].layers[2])
        /\ pk[e].layers[2].err = "index out of range"
        /\ Bytes(mem, pk[e].layers[2].contents) = <<2, 3>>

\* C4 as stated: once a packet holds a failure layer it has no pending next
\* decoder and no decoder runs on it.
C4_NoPendingAfterFailure ==
    \A e \in DOMAIN pk : HasFailure(pk[e]) =>
        /\ pk[e].next = NilDecoder
        /\ call.on = e => stack = <<>>

\* C4 amended: once a packet holds a failure layer no decoder is invoked on
\* it and no layer is appended to it; a next decoder the failing decoder
\* queued can stay pending on a lazy packet, and the only thing that happens
\* to it is that it is dropped.
C4_TerminalAfterFailure ==
    /\ [][\A e \in DOMAIN pk : HasFailure(pk[e]) =>
            /\ pk'[e].layers = pk[e].layers
            /\ pk'[e].next \in {pk[e].next, NilDecoder}
            /\ call.on = e => stack' = <<>>
            /\ call'.on = e => stack' = <<>>]_vars
    /\ [](\A e \in DOMAIN pk : HasFailure(pk[e]) => (call.on = e => stack = <<>>))
    /\ [](Built("eager") => pk["eager"].next = NilDecoder)

C4_Witness ==
    /\ first = "Bad" /\ Len(mem["in"]) >= 2
    /\ Built("lazy") /\ HasFailure(pk["lazy"]) /\ Drained(pk["lazy"])
    /\ ret.fn = "Layers" /\ ret.on = "lazy" /\ Len(ret.layers) = 2

\* C5: every call into the engine, NewPacket or an accessor, returns to its
\* caller, whatever the decoders and the input.  The engine does not bound
\* the decode steps: a decoder that queues a next decoder without taking a
\* byte off its buffer keeps eager NewPacket recursing until the stack is
\* used up, which no recover catches, and keeps a lazy accessor in its loop.
C5_EveryCallReturns == (call # NoCall) ~> (call = NoCall)

\* C6: a role pointer that is set never changes; it is the first layer, in
\* decode order, that claimed the role; and a role getter that returned a
\* layer names that pointer in every later state.
C6_RoleFirstWins ==
    /\ [][\A e \in DOMAIN pk : \A r \in RoleFields :
            pk[e][r] # NilLayer => pk'[e][r] = pk[e][r]]_vars
    /\ [](\A e \in DOMAIN pk : \A r \in RoleFields :
            pk[e][r] # NilLayer => pk[e][r] = FirstIn(pk[e].layers, 0, ClaimedBy(r)))
    /\ []((ret.fn \in DOMAIN RoleGetters /\ ret.layer # NilLayer)
            => ret.layer = pk[ret.on][RoleGetters[ret.fn]])

C6_Witness ==
    /\ Built("lazy") /\ Len(pk["lazy"].layers) >= 2
    /\ LayerType(pk["lazy"].layers[1]) = "UDP"
    /\ LayerType(pk["lazy"].layers[2]) = "TCP"
    /\ stack = <<>> /\ pk["lazy"].transport = pk["lazy"].layers[1]
    /\ ret.fn = "TransportLayer" /\ ret.on = "lazy" /\ LayerType(ret.layer) = "UDP"

\* C7: every step leaves each packet's layer sequence a prefix of the new one.
C7_LayersOnlyGrow ==
    [][\A e \in DOMAIN pk : IsPrefix(pk[e].layers, pk'[e].layers)]_vars

C7_Witness ==
    \E e \in DOMAIN pk : Len(pk[e].layers) >= 3 /\ IsFailure(pk[e].layers[3])

\* A decoder is about to call NextDecoder.
AtNextDecoder == IF Running THEN CurOp.op = "next" ELSE FALSE
\* NextDecoder returns error m to it and leaves the packet and the Decode
\* calls as they were.
Refused(m) ==
    /\ stack' = SetTop([Top EXCEPT !.err = m])
    /\ pk' = pk /\ fault' = fault

\* C8 as stated: in both engines NextDecoder refuses a nil decoder and a
\* call made before any layer was added, and changes nothing.
C8_BothEnginesRefuse ==
    [][AtNextDecoder =>
        /\ CurOp.next = NilDecoder => Refused(nilDecoderError)
        /\ (CurOp.next # NilDecoder /\ P.last = NilLayer) => Refused(noLayersError)]_vars

----------------------------------------------------------------------------
\* Properties of the PacketSource.

\* The i-th NextPacket result r is what the i-th read calls for: the read's
\* error and no packet, or a packet of the read's bytes, built with the
\* source's DecodeOptions and carrying the read's capture info.
Answered(r, i) ==
    LET rd == ReadPacketData(psrc.reads, i)
        o == psrc.DecodeOptions
    IN IF rd.err # NoErr
       THEN r.err = rd.err /\ r.packet = NoPacket
       ELSE /\ r.err = NoErr
            /\ r.packet.capInfo = rd.ci
            /\ r.packet.data = rd.data
            /\ r.packet.kind = (IF o.Lazy THEN "lazyPacket" ELSE "eagerPacket")
            /\ r.packet.aliased = o.NoCopy
            /\ IF o.Lazy
               THEN r.packet.layers = <<>> /\ r.packet.next = first
               ELSE Len(r.packet.layers) >= 1 /\ r.packet.next = NilDecoder

\* C9: NextPacket reads the source once per call, and its i-th result is
\* the error of the i-th read, end-of-stream included, with no packet, or
\* the packet built from that read with its capture info.
C9_NextPacketOneRead ==
    cons.mode = "pull" =>
        /\ psrc.pos = Len(out) + (IF np = NoNP THEN 0 ELSE 1)
        /\ \A i \in 1..Len(out) : Answered(out[i], i)

C9_Witness ==
    /\ cons.mode = "pull" /\ np = NoNP
    /\ Len(psrc.reads) = 3 /\ Len(out) = 4
    /\ out[1].err = NoErr /\ out[1].packet.capInfo.Length = 2
    /\ out[2].err = "timeout"
    /\ out[3].err = NoErr /\ out[3].packet.capInfo.Timestamp = 3
    /\ out[4].err = EOF

IsOk(rd) == rd.err = NoErr
\* The successful reads of the source, in order.
Successes == SelectSeq(psrc.reads, IsOk)
AllDelivered ==
    /\ Len(out) = Len(Successes)
    /\ \A i \in 1..Len(out) :
          /\ out[i].err = NoErr
          /\ out[i].packet.capInfo = Successes[i].ci
          /\ out[i].packet.data = Successes[i].data

\* C10: the channel of Packets() delivers the successfully read packets,
\* each once and in source order; a read error other than end-of-stream
\* delivers nothing, leaves the channel open and the goroutine looping; the
\* channel is closed on end-of-stream only, with every packet delivered; and
\* when the user keeps receiving, the channel does get closed and the
\* goroutine ends.
C10_PacketsDeliversAll ==
    /\ [](cons.mode = "push" =>
            /\ Len(out) <= Len(Successes)
            /\ \A i \in 1..Len(out) :
                  /\ out[i].err = NoErr
                  /\ out[i].packet.capInfo = Successes[i].ci
                  /\ out[i].packet.data = Successes[i].data
            /\ task.closed <=> task.pc = "done"
            /\ task.closed => (AllDelivered /\ psrc.pos = Len(psrc.reads) + 1))
    /\ [][(task.pc = "loop" /\ psrc'.pos # psrc.pos
            /\ ReadPacketData(psrc.reads, psrc.pos + 1).err \notin {NoErr, EOF})
              => (out' = out /\ task' = task)]_vars
    /\ ([]~cons.stopped) => [](task.pc # "none" => <>(task.closed /\ task.pc = "done" /\ AllDelivered))

C10_Witness ==
    /\ cons.mode = "push" /\ task.closed /\ task.pc = "done" /\ cons.ended
    /\ Len(psrc.reads) = 3 /\ psrc.reads[2].err = "timeout"
    /\ Len(out) = 2
    /\ out[1].packet.capInfo.Timestamp = 1 /\ out[2].packet.capInfo.Timestamp = 3

\* The reads the source has answered so far, and how many gave a packet.
ReadsMade == SubSeq(psrc.reads, 1, Min(psrc.pos, Len(psrc.reads)))
SuccessfulReads == Len(SelectSeq(ReadsMade, IsOk))
\* The source has a packet the user has not received.
Undelivered == cons.mode = "push" /\ Len(out) < Len(Successes)

\* C11: when the user of Packets() has stopped receiving, a goroutine at its
\* send stays there: it reads nothing, delivers nothing, closes nothing; and
\* when a packet is still to be delivered the goroutine does reach that
\* send and is blocked at it for ever, the channel open.
C11_BlockedForever ==
    /\ [][(cons.stopped /\ task.pc = "send")
            => (task' = task /\ psrc' = psrc /\ out' = out)]_vars
    /\ []((cons.stopped /\ Undelivered)
            => <>[](task.pc = "send" /\ ~task.closed /\ Undelivered))

C11_Witness ==
    /\ cons.stopped /\ task.pc = "send" /\ ~task.closed
    /\ Len(out) = 1 /\ psrc.pos = 2 /\ Len(psrc.reads) = 3
    /\ IsOk(psrc.reads[3])

\* C12: in a Packets() run the packets read from the source are at most one
\* more than the packets received, the one more being the packet of the
\* pending send (or the one NextPacket is building), and no read is made
\* while a send is pending.
C12_RendezvousThrottles ==
    /\ [](cons.mode = "push" =>
            /\ SuccessfulReads - Len(out) \in {0, 1}
            /\ SuccessfulReads - Len(out) = 1 <=> (task.pc = "send" \/ np.by = "task"))
    /\ [][task.pc = "send" => psrc'.pos = psrc.pos]_vars

C12_Witness ==
    /\ cons.mode = "push" /\ ~cons.stopped
    /\ task.pc = "send" /\ Len(out) = 2 /\ SuccessfulReads = 3

----------------------------------------------------------------------------
\* Slice s lies within slice d.
Within(s, d) ==
    s.len = 0 \/ (s.buf = d.buf /\ d.lo <= s.lo /\ s.lo + s.len <= d.lo + d.len)

\* C13: NewPacket gives the packet its own buffer unless NoCopy was asked
\* for, and then the caller's; every layer's contents and payload are views
\* of the packet's buffer; a new packet shows the bytes of the caller's slice;
\* no step, a write of the caller to its slice included, changes the bytes
\* that a packet with its own buffer and its layers show; and a NoCopy
\* packet shows what the caller's slice holds now.
C13_CopyIsolatesNoCopyAliases ==
    /\ [](ret.fn = "NewPacket" =>
            ((pk[ret.on].data.buf = "in") <=> ("NoCopy" \in ret.arg)))
    /\ [](\A e \in DOMAIN pk : \A i \in 1..Len(pk[e].layers) :
            /\ Within(pk[e].layers[i].contents, pk[e].data)
            /\ Within(pk[e].layers[i].payload, pk[e].data))
    /\ [][\A e \in DOMAIN pk' \ DOMAIN pk : Bytes(mem', pk'[e].data) = mem["in"]]_vars
    /\ [][\A e \in DOMAIN pk : pk[e].data.buf # "in" =>
            /\ Bytes(mem', pk'[e].data) = Bytes(mem, pk[e].data)
            /\ \A i \in 1..Len(pk[e].layers) :
                  /\ Bytes(mem', pk'[e].layers[i].contents)
                        = Bytes(mem, pk[e].layers[i].contents)
                  /\ Bytes(mem', LayerPayload(pk'[e].layers[i]))
                        = Bytes(mem, LayerPayload(pk[e].layers[i]))]_vars
    /\ [](\A e \in DOMAIN pk : pk[e].data.buf = "in" =>
            Bytes(mem, pk[e].data) = mem["in"])

C13_Witness ==
    /\ Built("eager") /\ Idle /\ pk["eager"].data.buf = "in"
    /\ mem["in"] = <<1, 0, 3>>
    /\ Bytes(mem, pk["eager"].data) = <<1, 0, 3>>
    /\ Len(pk["eager"].layers) = 3
    /\ Bytes(mem, LayerPayload(pk["eager"].layers[1])) = <<0, 3>>
    /\ Built("lazy") /\ Len(pk["lazy"].layers) = 0

----------------------------------------------------------------------------
\* A packet with nothing left to decode: an eager packet NewPacket has
\* returned, a lazy packet with no pending decoder and no decode step under
\* way.
Finished(e) ==
    /\ Built(e)
    /\ IF e = "eager" THEN call.on # "eager"
       ELSE /\ pk[e].next = NilDecoder
            /\ call.on = e => (stack = <<>> /\ fault = NoFault)
AccessorNames == DOMAIN RoleGetters \cup {"Layers", "String", "Layer", "LayerClass"}

\* C14: on a finished packet no step changes the packet or invokes a
\* decoder, the packet stays finished, and what an accessor returned is
\* what the packet's layers and role pointers determine for that accessor
\* and argument, so that every call of it returns the same.
C14_AccessorsIdempotent ==
    /\ [][\A e \in DOMAIN pk : Finished(e) =>
            /\ pk'[e] = pk[e]
            /\ call'.on = e => stack' = <<>>
            /\ Finished(e)']_vars
    /\ []((Idle /\ ret.fn \in AccessorNames /\ Finished(ret.on)) =>
            /\ ret.layer = Lookup(pk[ret.on], ret.fn, ret.arg, 0)
            /\ ret.layers = IF ret.fn = "Layers" THEN pk[ret.on].layers ELSE <<>>
            /\ ret.text = IF ret.fn = "String" THEN packetString(pk[ret.on].layers)
                          ELSE <<>>)

C14_Witness ==
    /\ Idle /\ Finished("eager") /\ Finished("lazy")
    /\ Len(pk["lazy"].layers) = 2
    /\ ret.fn = "LayerClass" /\ ret.on = "lazy" /\ IsFailure(ret.layer)

----------------------------------------------------------------------------
\* A lazy accessor is at its loop head and takes a decode step; it returns.
TakesDecodeStep == AtLoopHead /\ call' # NoCall
AccessorReturns == AtLoopHead /\ call' = NoCall

\* C15: NewPacket with Lazy stores the first decoder as pending and invokes
\* nothing; a role getter of the lazy packet takes a decode step only with
\* its role pointer unset and a decoder pending; it returns its role pointer
\* and changes nothing in doing so, and it returns nil only when no decoder
\* is pending.
C15_LazyRoleGetters ==
    /\ [][("lazy" \notin DOMAIN pk /\ "lazy" \in DOMAIN pk') =>
            /\ stack' = <<>> /\ fault' = NoFault /\ call' = NoCall
            /\ pk'["lazy"].layers = <<>> /\ pk'["lazy"].last = NilLayer
            /\ pk'["lazy"].next = first]_vars
    /\ [][(TakesDecodeStep /\ call.fn \in DOMAIN RoleGetters) =>
            /\ P[RoleGetters[call.fn]] = NilLayer
            /\ P.next # NilDecoder]_vars
    /\ [][(AccessorReturns /\ call.fn \in DOMAIN RoleGetters) =>
            /\ pk' = pk
            /\ ret'.layer = P[RoleGetters[call.fn]]
            /\ ret'.layer = NilLayer => P.next = NilDecoder]_vars

C15_Witness ==
    /\ Idle /\ Built("lazy")
    /\ ret.fn = "NetworkLayer" /\ ret.on = "lazy" /\ LayerType(ret.layer) = "IPv4"
    /\ Len(pk["lazy"].layers) = 2 /\ pk["lazy"].next = "TCP"
    /\ pk["lazy"].transport = NilLayer

----------------------------------------------------------------------------
\* Layer l is the first layer of ls whose type is in class c.
IsFirstMatch(l, ls, c) ==
    \E i \in 1..Len(ls) :
        /\ ls[i] = l /\ LayerType(l) \in c
        /\ \A j \in 1..(i - 1) : LayerType(ls[j]) \notin c
NoMatch(ls, c) == \A i \in 1..Len(ls) : LayerType(ls[i]) \notin c

\* C16: Layer(t) and LayerClass(c) of a lazy packet return the first layer,
\* in decode order, whose type matches, and nil only when nothing is left to
\* decode and no layer matches; they take a decode step only while no layer
\* decoded so far matches, hence none after the step that appended the
\* layer they return.
C16_LazyLookupFindsFirst ==
    /\ [][(AccessorReturns /\ call.fn \in {"Layer", "LayerClass"}) =>
            /\ pk' = pk
            /\ IF ret'.layer = NilLayer
               THEN P.next = NilDecoder /\ NoMatch(P.layers, call.arg)
               ELSE IsFirstMatch(ret'.layer, P.layers, call.arg)]_vars
    /\ [][(TakesDecodeStep /\ call.fn \in {"Layer", "LayerClass"}) =>
            NoMatch(P.layers, call.arg)]_vars

C16_Witness ==
    /\ Idle /\ Built("lazy")
    /\ ret.fn = "Layer" /\ ret.on = "lazy" /\ ret.arg = {"TCP"}
    /\ Len(pk["lazy"].layers) = 3 /\ pk["lazy"].next = "Pay"
    /\ ret.layer = pk["lazy"].layers[3] /\ LayerType(ret.layer) = "TCP"

----------------------------------------------------------------------------
\* A decoder queued with NextDecoder, or pending on a lazy packet, is
\* invoked: a Decode call is pushed inside a call of the engine.  (The call
\* of the first decoder by eager NewPacket is not one of a queued decoder.)
Invoked == call # NoCall /\ Len(stack') = Len(stack) + 1
\* The bytes that are due to the next decoder.
Handed == IF P.last = NilLayer THEN P.data ELSE LayerPayload(P.last)

\* C17: a queued decoder is invoked with exactly the payload of the layer
\* appended last at that moment (the packet buffer when there is none),
\* and only when that payload is not empty; with an empty payload the
\* decoder is dropped: nothing is invoked, no layer is added, and the lazy
\* packet is left with no pending decoder.
C17_QueuedDecoderGetsLastPayload ==
    /\ [][Invoked =>
            LET f == stack'[Len(stack')]
            IN /\ f.buf = Handed /\ f.buf.len > 0 /\ f.pc = 1
               /\ f.dec = IF call.on = "eager" THEN CurOp.next ELSE P.next]_vars
    /\ [][(TakesDecodeStep /\ Handed.len = 0) =>
            /\ stack' = <<>> /\ fault' = NoFault
            /\ pk' = [pk EXCEPT ![call.on].next = NilDecoder]]_vars
    /\ [][(AtNextDecoder /\ call.on = "eager" /\ CurOp.next # NilDecoder
             /\ P.last # NilLayer /\ Handed.len = 0) =>
            /\ pk' = pk /\ fault' = NoFault
            /\ stack' = SetTop(Advance)]_vars

C17_Witness ==
    /\ call.on = "eager" /\ Len(stack) = 3 /\ fault = NoFault
    /\ Top.pc = 1 /\ Top.dec = "TCP"
    /\ Len(P.layers) = 2 /\ Top.buf = LayerPayload(P.last)
    /\ Bytes(mem, Top.buf) = <<3>>
    /\ Built("lazy") /\ pk["lazy"].next = NilDecoder /\ Len(pk["lazy"].layers) = 3

----------------------------------------------------------------------------
\* The decoding of a lazy packet as a function of the packet.

\* One Decode call on a lazy packet as a function: decoder s from its
\* statement i on buffer buf, cur the layer the call created last.  It
\* gives the packet and what recoverDecodeError finds.
RECURSIVE RunDecode(_, _, _, _, _)
RunDecode(p, s, i, buf, cur) ==
    IF i > Len(s) THEN [p |-> p, fault |-> NoFault]
    ELSE LET op == s[i] IN
         IF op.op = "add"
         THEN IF buf.len < Eaten(op, buf)
              THEN [p |-> p, fault |-> [kind |-> "error", msg |-> shortBuffer]]
              ELSE LET k == Eaten(op, buf)
                       l == [ id |-> Len(p.layers) + 1,
                              type |-> op.type,
                              err |-> NoErr,
                              contents |-> Slice(buf.buf, buf.lo, k),
                              payload |-> Slice(buf.buf, buf.lo + k, buf.len - k) ]
                   IN RunDecode(AddLayer(p, l), s, i + 1, buf, l)
         ELSE IF op.op = "set"
         THEN RunDecode(SetRoleLayer(p, op.role, cur), s, i + 1, buf, cur)
         ELSE IF op.op = "next"
         THEN IF op.next = NilDecoder
              THEN [p |-> p, fault |-> [kind |-> "error", msg |-> nilDecoderError]]
              ELSE RunDecode([p EXCEPT !.next = op.next], s, i + 1, buf, cur)
         ELSE IF op.op = "err"
         THEN [p |-> p, fault |-> [kind |-> "error", msg |-> op.msg]]
         ELSE [p |-> p, fault |-> [kind |-> "value", msg |-> op.msg]]

\* lazyPacket.decodeNextLayer as a function of the packet.
DecodeNext(p) ==
    IF p.next = NilDecoder THEN p
    ELSE LET d == IF p.last # NilLayer THEN LayerPayload(p.last) ELSE p.data
             q == [p EXCEPT !.next = NilDecoder]
         IN IF d.len = 0 THEN q
            ELSE LET r == RunDecode(Decode(q), Decoders[p.next], 1, d, NilLayer)
                 IN recoverDecodeError(r.p, r.fault)

\* The loop of lazyPacket.Layers, cut off after n decode steps.
RECURSIVE DrainSteps(_, _)
DrainSteps(p, n) ==
    IF p.next = NilDecoder \/ n = 0 THEN p ELSE DrainSteps(DecodeNext(p), n - 1)
Drain(p) == DrainSteps(p, MaxInvoked + 1)

----------------------------------------------------------------------------
\* The same decoder was invoked twice on the same bytes and its layer
\* appended twice.
DecodedTwice(ls) ==
    \E i, j \in 1..Len(ls) :
        /\ i < j /\ ls[i].type = ls[j].type /\ ls[i].contents = ls[j].contents
        /\ ~IsFailure(ls[i])

\* What the calls of one caller, made one after the other, can leave of the
\* lazy packet of this run: the packet NewPacket built, after none, one or
\* more decode steps.
SequentialOutcomes ==
    { DrainSteps(initialSlice([packet("lazyPacket", pk["lazy"].data) EXCEPT !.next = first]), n) :
        n \in 0..MaxInvoked }
\* No goroutine is in a call and every store has reached memory.
Quiet ==
    /\ call = NoCall /\ thr.park.call = NoCall
    /\ Me.sb = <<>> /\ Other.sb = <<>>

\* C18: a lazy packet is not safe for concurrent access.  Accessor calls of
\* two goroutines made in a sequential order (each one started when the one
\* before had returned and all it stored was in memory, as a lock around the
\* calls gives) invoke no decoder twice on the same bytes, and they leave
\* the packet as decode steps made one after the other leave it.  The witness is what concurrent
\* calls reach and no sequential order does: the pending decoder invoked
\* twice on the same bytes and its layer appended twice.
C18_SequentialCallsAgree ==
    (Built("lazy") /\ ~thr.overlapped) =>
        /\ ~DecodedTwice(MyPacket.layers)
        /\ Quiet => pk["lazy"] \in SequentialOutcomes

C18_Witness ==
    /\ Built("lazy") /\ thr.overlapped /\ Quiet
    /\ pk["lazy"] \notin SequentialOutcomes
    /\ DecodedTwice(pk["lazy"].layers)
    /\ pk["lazy"].invoked = 2
    /\ Len(pk["lazy"].layers) = 2
    /\ LayerType(pk["lazy"].layers[1]) = "TCP"
    /\ LayerType(pk["lazy"].layers[2]) = "TCP"

----------------------------------------------------------------------------
\* C19.  On a lazy packet used by one caller, the order of the accessor
\* calls does not matter: whenever the packet is between decode steps, what
\* is left to decode takes it to the one packet its bytes and first decoder
\* determine, and every accessor has returned what that packet holds (the
\* role's layer, the first layer of the type or class, all the layers),
\* whatever accessors were called before it.  Taken for the chains that
\* can be drained.

\* The lazy packet of this run decoded to its end straight after NewPacket.
Reference ==
    Drain(initialSlice([packet("lazyPacket", pk["lazy"].data) EXCEPT !.next = first]))
BetweenSteps == stack = <<>> /\ fault = NoFault

C19_AccessorOrderIrrelevant ==
    (Built("lazy") /\ BetweenSteps /\ Drained(Reference)) =>
        /\ Drain(pk["lazy"]) = Reference
        /\ (Idle /\ ret.on = "lazy" /\ ret.fn \in AccessorNames) =>
              /\ ret.layer = Lookup(Reference, ret.fn, ret.arg, 0)
              /\ ret.layers = IF ret.fn = "Layers" THEN Reference.layers ELSE <<>>
              /\ ret.text = IF ret.fn = "String" THEN packetString(Reference.layers)
                            ELSE <<>>

C19_Witness ==
    /\ Idle /\ Built("lazy") /\ first = "Eth" /\ Drained(Reference)
    /\ Len(Reference.layers) = 3
    /\ Len(pk["lazy"].layers) = 3 /\ pk["lazy"].next = "Pay"
    /\ ret.on = "lazy" /\ ret.fn = "Layer" /\ ret.arg = {"TCP"}
    /\ ret.layer = Reference.transport /\ ret.layer # NilLayer

----------------------------------------------------------------------------
\* C20.  When every decoder of the chain calls NextDecoder at most once and
\* only after adding a layer that took at least one byte off the buffer it
\* was given, no packet, eager or lazy, has more Decode calls made on it
\* than max(1, len(data)); and so NewPacket and every lazy accessor return.

AtMostOneNext(s) == Cardinality({ i \in 1..Len(s) : s[i].op = "next" }) <= 1
OneShrinkingNext(d) ==
    Progressing(d) /\ \A x \in Chain(d) : AtMostOneNext(Decoders[x])

C20_InvocationsBounded ==
    /\ [](OneShrinkingNext(first) =>
            \A e \in DOMAIN pk : pk[e].invoked <= Max(1, pk[e].data.len))
    /\ \A e \in {"eager", "lazy"} :
          (OneShrinkingNext(first) /\ call.on = e) ~> Idle

C20_Witness ==
    /\ OneShrinkingNext(first) /\ Idle
    /\ Built("eager") /\ pk["eager"].data.len = MaxLen
    /\ pk["eager"].invoked = MaxLen
    /\ Built("lazy") /\ pk["lazy"].data.len = MaxLen
    /\ pk["lazy"].invoked = MaxLen /\ Drained(pk["lazy"])

====
